---- MODULE Spec2Model ----
(***************************************************************************)
(* Model of app.py, the Streamlit "Scene Cards Prompt Generator".          *)
(*                                                                         *)
(* Strings are sequences of tokens.  Free text (URL, scraped title and     *)
(* description, site name, idea) is spelled one character per token, so    *)
(* that lower(), strip(), slicing and the substring test `w in text` work  *)
(* on it as they do in Python.  The fixed texts of the templates and of    *)
(* the tables are single tokens.  Non-ASCII characters of the source       *)
(* literals are written in ASCII here: the dash as "--", the arrow as      *)
(* "->", typographic quotes as "'".                                        *)
(***************************************************************************)
EXTENDS Integers, Sequences, FiniteSets, TLC

VARIABLES url, idea, category, orientation, total_duration, scene_len,
          detail_level, base_seed,
          meta, auto_cat, category_final, continuity,
          n, beats, scenes, pc,
          password, authed, attempt, login,
          fetch, backend, img, attempted, session

\* APP_PASSWORD, st.session_state.authed, the password field and the Login button
gateVars == <<password, authed, attempt, login>>

\* the image engine, the position of the image loop, the calls it made, and the
\* keys the script saves in st.session_state
imageVars == <<backend, img, attempted, session>>

vars == <<url, idea, category, orientation, total_duration, scene_len,
          detail_level, base_seed,
          meta, auto_cat, category_final, continuity,
          n, beats, scenes, pc, fetch, gateVars, imageVars>>

----------------------------------------------------------------------------
(* Python string operations on token sequences *)

UpperToLower ==
  [c \in {"A","B","C","D","E","F","G","H","I","J","K","L","M","N","O","P","Q",
          "R","S","T","U","V","W","X","Y","Z"} |->
     CASE c = "A" -> "a" [] c = "B" -> "b" [] c = "C" -> "c" [] c = "D" -> "d"
       [] c = "E" -> "e" [] c = "F" -> "f" [] c = "G" -> "g" [] c = "H" -> "h"
       [] c = "I" -> "i" [] c = "J" -> "j" [] c = "K" -> "k" [] c = "L" -> "l"
       [] c = "M" -> "m" [] c = "N" -> "n" [] c = "O" -> "o" [] c = "P" -> "p"
       [] c = "Q" -> "q" [] c = "R" -> "r" [] c = "S" -> "s" [] c = "T" -> "t"
       [] c = "U" -> "u" [] c = "V" -> "v" [] c = "W" -> "w" [] c = "X" -> "x"
       [] c = "Y" -> "y" [] c = "Z" -> "z"]

\* str.lower()
Lower(s) ==
  [k \in 1..Len(s) |-> IF s[k] \in DOMAIN UpperToLower THEN UpperToLower[s[k]] ELSE s[k]]

\* w in text
Contains(text, w) ==
  \E k \in 0..(Len(text) - Len(w)) : \A j \in 1..Len(w) : text[k + j] = w[j]

\* s[:k]
Take(s, k) == SubSeq(s, 1, IF Len(s) < k THEN Len(s) ELSE k)

Whitespace == {" ", "\n", "\t"}

\* str.strip()
Strip(s) ==
  LET keep == {k \in 1..Len(s) : s[k] \notin Whitespace}
      lo   == CHOOSE k \in keep : \A j \in keep : k <= j
      hi   == CHOOSE k \in keep : \A j \in keep : j <= k
  IN  IF keep = {} THEN <<>> ELSE SubSeq(s, lo, hi)

\* str(k), f"{k}"
Str(k) == <<ToString(k)>>

----------------------------------------------------------------------------
(* App config *)

DEFAULT_NEGATIVE ==
  <<"lowres, blurry, jpeg artifacts, watermark, text, logo, bad anatomy, extra limbs, deformed hands, disfigured, duplicate, cropped, worst quality">>

CATEGORIES ==
  <<"Auto", "Bushcraft", "Survival", "Shelter", "DIY", "Movie (Real-life)",
    "Animals (Real-life)">>

ORIENTATIONS ==
  [o \in {"horizontal 16:9", "vertical 9:16", "square 1:1"} |->
     CASE o = "horizontal 16:9" -> <<1280, 720>>
       [] o = "vertical 9:16"   -> <<720, 1280>>
       [] o = "square 1:1"      -> <<1024, 1024>>]

STYLE_PRESETS ==
  [c \in {"Bushcraft", "Survival", "Shelter", "DIY", "Movie (Real-life)",
          "Animals (Real-life)"} |->
     CASE c = "Bushcraft" ->
            [vibe     |-> <<"authentic bushcraft realism, tactile materials, practical tools">>,
             camera   |-> <<"35mm documentary-cinema, stable handheld, shallow DOF">>,
             lighting |-> <<"natural light, golden hour or overcast realism">>]
       [] c = "Survival" ->
            [vibe     |-> <<"survival realism, urgency and constraints, grounded decisions">>,
             camera   |-> <<"cinematic documentary, close-medium emotion + wide context">>,
             lighting |-> <<"moody overcast or dusk, realistic contrast">>]
       [] c = "Shelter" ->
            [vibe     |-> <<"shelter-building realism, clear progress beats, safe depiction">>,
             camera   |-> <<"stable framing, medium-wide for structure + detail inserts">>,
             lighting |-> <<"daylight shifting toward dusk, consistent progression">>]
       [] c = "DIY" ->
            [vibe     |-> <<"clean DIY tutorial realism, satisfying progress means">>,
             camera   |-> <<"tripod-stable, top-down + side angle, crisp detail">>,
             lighting |-> <<"soft practical lighting, clean shadows">>]
       [] c = "Movie (Real-life)" ->
            [vibe     |-> <<"cinematic real-life film look, high production">>,
             camera   |-> <<"35mm film look, one clear camera move per scene, shallow DOF">>,
             lighting |-> <<"motivated cinematic lighting, practical sources">>]
       [] c = "Animals (Real-life)" ->
            [vibe     |-> <<"wildlife documentary realism, species-accurate behavior">>,
             camera   |-> <<"telephoto look, stable handheld, natural bokeh">>,
             lighting |-> <<"natural outdoor light, true-to-life exposure">>]]

\* the keyword table, in declaration order (the order dict iteration follows)
KW ==
  << [cat |-> "Bushcraft",
      words |-> << <<"b","u","s","h","c","r","a","f","t">>, <<"c","a","m","p","f","i","r","e">>, <<"f","o","r","e","s","t"," ","c","a","m","p">>, <<"t","a","r","p">>, <<"c","o","r","d","a","g","e">>,
                   <<"a","x","e">>, <<"k","n","i","f","e">>, <<"k","i","n","d","l","i","n","g">>, <<"o","u","t","d","o","o","r"," ","c","a","m","p">> >>],
     [cat |-> "Survival",
      words |-> << <<"s","u","r","v","i","v","a","l">>, <<"w","i","l","d","e","r","n","e","s","s">>, <<"s","t","r","a","n","d","e","d">>, <<"l","o","s","t">>, <<"s","t","o","r","m">>,
                   <<"r","e","s","c","u","e">>, <<"s","i","g","n","a","l">>, <<"n","a","v","i","g","a","t","i","o","n">>, <<"s","o","s">>, <<"w","a","t","e","r"," ","s","o","u","r","c","e">> >>],
     [cat |-> "Shelter",
      words |-> << <<"s","h","e","l","t","e","r">>, <<"l","e","a","n","-","t","o">>, <<"d","e","b","r","i","s"," ","h","u","t">>, <<"h","u","t">>, <<"t","a","r","p"," ","s","h","e","l","t","e","r">>,
                   <<"w","i","n","d","b","r","e","a","k">>, <<"i","n","s","u","l","a","t","i","o","n">>, <<"c","a","m","p"," ","s","h","e","l","t","e","r">> >>],
     [cat |-> "DIY",
      words |-> << <<"d","i","y">>, <<"h","o","w"," ","t","o">>, <<"t","u","t","o","r","i","a","l">>, <<"b","u","i","l","d">>, <<"m","a","k","e">>, <<"c","r","a","f","t">>,
                   <<"w","o","r","k","b","e","n","c","h">>, <<"a","s","s","e","m","b","l","e">>, <<"t","o","o","l","s">>, <<"w","o","o","d","w","o","r","k","i","n","g">> >>],
     [cat |-> "Animals (Real-life)",
      words |-> << <<"w","i","l","d","l","i","f","e">>, <<"a","n","i","m","a","l">>, <<"a","n","i","m","a","l","s">>, <<"n","a","t","u","r","e">>, <<"d","o","c","u","m","e","n","t","a","r","y">>,
                   <<"d","o","g">>, <<"c","a","t">>, <<"l","i","o","n">>, <<"t","i","g","e","r">>, <<"e","l","e","p","h","a","n","t">>, <<"b","i","r","d">>, <<"s","h","a","r","k">>,
                   <<"w","h","a","l","e">> >>],
     [cat |-> "Movie (Real-life)",
      words |-> << <<"c","i","n","e","m","a","t","i","c">>, <<"f","i","l","m">>, <<"m","o","v","i","e">>, <<"t","r","a","i","l","e","r">>, <<"s","c","e","n","e">>,
                   <<"t","h","r","i","l","l","e","r">>, <<"n","o","i","r">>, <<"n","e","o","n">>, <<"a","c","t","i","o","n">> >>] >>

----------------------------------------------------------------------------
(* Data models *)

\* CloneMeta(url=url, source=source): the other fields default to ""
CloneMeta(u, source) ==
  [url |-> u, source |-> source, title |-> <<>>, description |-> <<>>,
   site_name |-> <<>>, image |-> <<>>]

\* SceneOut(idx, title, story, video_prompt, image_prompt, negative_prompt, seed, image_bytes)
SceneOut(idx, title, story, vp, ip, negative, seed, image_bytes) ==
  [idx |-> idx, title |-> title, story |-> story, video_prompt |-> vp,
   image_prompt |-> ip, negative_prompt |-> negative, seed |-> seed,
   image_bytes |-> image_bytes]

----------------------------------------------------------------------------
(* URL clone *)

detect_source(u0) ==
  LET u == Strip(Lower(u0))
  IN  IF Contains(u, <<"t","i","k","t","o","k",".","c","o","m">>) THEN <<"TikTok">>
      ELSE IF Contains(u, <<"i","n","s","t","a","g","r","a","m",".","c","o","m">>) \/ Contains(u, <<"i","n","s","t","a","g","r",".","a","m">>) THEN <<"Instagram">>
      ELSE IF Contains(u, <<"f","a","c","e","b","o","o","k",".","c","o","m">>) \/ Contains(u, <<"f","b",".","w","a","t","c","h">>) THEN <<"Facebook">>
      ELSE IF Contains(u, <<"y","o","u","t","u","b","e",".","c","o","m">>) \/ Contains(u, <<"y","o","u","t","u",".","b","e">>) THEN <<"YouTube">>
      ELSE <<"Web">>

MaxTitleLen == 200
MaxDescLen == 400
MaxSiteLen == 120
MaxImageLen == 500

\* The outcome of fetch_html: FetchFailed when requests raises, else a page, given
\* by what the extract_* chains find in it.
FetchFailed ==
  [ok |-> FALSE, title |-> <<>>, description |-> <<>>, site_name |-> <<>>,
   image |-> <<>>]

Page(title, description, site_name, image) ==
  [ok |-> TRUE, title |-> title, description |-> description,
   site_name |-> site_name, image |-> image]

build_clone_meta_web_on_failure(u, fetched) ==
  IF u = <<>> \/ ~fetched.ok THEN CloneMeta(u, <<"Web">>)
  ELSE [CloneMeta(u, detect_source(u)) EXCEPT
          !.title       = Take(fetched.title, MaxTitleLen),
          !.description = Take(fetched.description, MaxDescLen),
          !.site_name   = Take(fetched.site_name, MaxSiteLen),
          !.image       = Take(fetched.image, MaxImageLen)]

build_clone_meta(u, fetched) ==
  LET m == CloneMeta(u, detect_source(u))
  IN  IF u = <<>> THEN m
      ELSE IF ~fetched.ok THEN m
      ELSE [m EXCEPT !.title       = Take(fetched.title, MaxTitleLen),
                     !.description = Take(fetched.description, MaxDescLen),
                     !.site_name   = Take(fetched.site_name, MaxSiteLen),
                     !.image       = Take(fetched.image, MaxImageLen)]

\* sum(1 for w in words if w in text)
Score(words, text) ==
  Cardinality({j \in 1..Len(words) : Contains(text, words[j])})

\* for cat, words in KW.items(): if score > best_score: best, best_score = cat, score
RECURSIVE SuggestLoop(_, _, _, _)
SuggestLoopTiesLast(k, text, best, best_score) ==
  IF k > Len(KW) THEN <<best, best_score>>
  ELSE LET score == Score(KW[k].words, text)
       IN  IF score >= best_score
           THEN SuggestLoop(k + 1, text, KW[k].cat, score)
           ELSE SuggestLoop(k + 1, text, best, best_score)

SuggestLoop(k, text, best, best_score) ==
  IF k > Len(KW) THEN <<best, best_score>>
  ELSE LET score == Score(KW[k].words, text)
       IN  IF score > best_score
           THEN SuggestLoop(k + 1, text, KW[k].cat, score)
           ELSE SuggestLoop(k + 1, text, best, best_score)

MinScore == 2

SuggestText(m, i) ==
  Lower(m.title \o <<" ">> \o m.description \o <<" ">> \o m.site_name \o <<" ">> \o i)

suggest_category_threshold1(m, i) ==
  LET r == SuggestLoop(1, SuggestText(m, i), "Movie (Real-life)", 0)
  IN  IF r[2] >= 1 THEN r[1] ELSE "Movie (Real-life)"

suggest_category(m, i) ==
  LET r == SuggestLoop(1, SuggestText(m, i), "Movie (Real-life)", 0)
  IN  IF r[2] >= MinScore THEN r[1] ELSE "Movie (Real-life)"

----------------------------------------------------------------------------
(* AUTO continuity builder *)

ContinuityFlavorIdeaFirst(m, i) ==
  (IF i # <<>> THEN <<" Idea: ">> \o i \o <<".">> ELSE <<>>)
  \o (IF m.title # <<>> THEN <<" Inspired by source title: ">> \o m.title \o <<".">> ELSE <<>>)

\* flavor = ""; if meta.title: flavor += ...; if idea: flavor += ...
ContinuityFlavor(m, i) ==
  (IF m.title # <<>> THEN <<" Inspired by source title: ">> \o m.title \o <<".">> ELSE <<>>)
  \o (IF i # <<>> THEN <<" Idea: ">> \o i \o <<".">> ELSE <<>>)

auto_continuity(cat, m, i) ==
  LET actor ==
        IF cat = "Animals (Real-life)"
        THEN <<"Same wild animal subject across scenes (species-accurate markings, consistent size/features, natural behavior).">>
        ELSE IF cat = "DIY"
        THEN <<"Same craftsperson across scenes (consistent hands/identity; same outfit: dark shirt + apron).">>
        ELSE IF cat \in {"Bushcraft", "Shelter", "Survival"}
        THEN <<"Same outdoors person across scenes (consistent identity; same outfit: olive jacket, cargo pants, boots, backpack).">>
        ELSE <<"Same main character across scenes (consistent identity, outfit, hairstyle, props).">>
      setting ==
        IF cat = "Animals (Real-life)"
        THEN <<"Same natural habitat; camera keeps respectful distance; time-of-day evolves logically.">>
        ELSE IF cat = "DIY"
        THEN <<"Same clean workshop and workbench; tools remain consistent; lighting stays coherent.">>
        ELSE IF cat \in {"Bushcraft", "Shelter", "Survival"}
        THEN <<"Same outdoor location continuity; weather/time shift gradually; no random location jumps.">>
        ELSE <<"Same world continuity; location evolves logically scene-to-scene; time progression consistent.">>
      mood ==
        IF cat = "Animals (Real-life)"
        THEN <<"Observational calm -> behavior highlight -> calm exit.">>
        ELSE IF cat = "DIY"
        THEN <<"Clean progress beats -> satisfying reveal.">>
        ELSE IF cat \in {"Bushcraft", "Shelter", "Survival"}
        THEN IF cat # "Survival"
             THEN <<"Calm focus -> steady progress -> satisfying completion.">>
             ELSE <<"Rising tension -> decision -> action -> relief.">>
        ELSE <<"Cinematic build-up -> turning point -> resolution.">>
      rules == <<"Realistic physics. Continuity enforced. No random costume/prop changes. No text/watermarks/logos.">>
      flavor == ContinuityFlavor(m, i)
  IN  [actor_lock |-> actor \o flavor, setting_lock |-> setting,
       mood_arc |-> mood, rules |-> rules]

CategoryFinalAlwaysSelection(cat, suggested) == cat

CategoryFinalAlwaysSuggested(cat, suggested) == suggested

\* category_final = auto_cat if category == "Auto" else category
CategoryFinal(cat, suggested) == IF cat = "Auto" THEN suggested ELSE cat

----------------------------------------------------------------------------
(* Scene beats *)

ANIMAL_BEATS ==
  << << <<"Establish Habitat">>, <<"Wide habitat shot; subtle animal presence.">> >>,
     << <<"First Sighting">>, <<"Animal enters naturally; no human influence.">> >>,
     << <<"Behavior Detail">>, <<"Close detail of natural behavior (foraging/grooming/listening).">> >>,
     << <<"Interaction">>, <<"Non-violent interaction (pairing/parenting/group movement).">> >>,
     << <<"Natural Challenge">>, <<"Terrain/weather obstacle; animal responds naturally.">> >>,
     << <<"Adaptation">>, <<"Highlight a species adaptation (speed/hearing/camouflage).">> >>,
     << <<"Calm Moment">>, <<"Quiet pause; emphasize ambience.">> >>,
     << <<"Exit">>, <<"Animal leaves frame; habitat remains; soft ending.">> >> >>

GENERIC_BEATS ==
  << << <<"Opening Shot">>, <<"Establish subject, location, and goal; show the 'before' state.">> >>,
     << <<"Rising Tension">>, <<"Introduce a constraint (time/weather/missing item/unexpected issue).">> >>,
     << <<"First Action">>, <<"Do first key step; include close details of hands/tools/materials.">> >>,
     << <<"Progress Check">>, <<"Show measurable progress; improve stability/efficiency.">> >>,
     << <<"Complication">>, <<"Something goes wrong; fix it logically (no magic).">> >>,
     << <<"Second Action">>, <<"Next major step; emphasize technique and realism.">> >>,
     << <<"Turning Point">>, <<"Milestone achieved; satisfying progress moment.">> >>,
     << <<"Final Push">>, <<"Finish the final step; secure/verify result.">> >>,
     << <<"Result Reveal">>, <<"Hero reveal of the finished result; clean wide shot.">> >>,
     << <<"Outro">>, <<"Calm ending; confirm continuity; tease next project.">> >> >>

\* base = [...] of build_beats
BeatBase(cat) == IF cat = "Animals (Real-life)" THEN ANIMAL_BEATS ELSE GENERIC_BEATS

\* base * k
RECURSIVE Repeat(_, _)
Repeat(s, k) == IF k <= 0 THEN <<>> ELSE s \o Repeat(s, k - 1)

\* f"{i+1}. {t}" for the 1-based position k = i+1
NumberedTitle(k, t) == Str(k) \o <<". ">> \o t

build_beats_no_repeat(count, cat) ==
  LET base == BeatBase(cat)
      out  == Take(base, count)
  IN  [k \in 1..Len(out) |-> << NumberedTitle(k, out[k][1]), out[k][2] >>]

\* out = (base * ((n // len(base)) + 1))[:n]; the titles numbered from 1
build_beats(count, cat) ==
  LET base == BeatBase(cat)
      out  == Take(Repeat(base, (count \div Len(base)) + 1), count)
  IN  [k \in 1..Len(out) |-> << NumberedTitle(k, out[k][1]), out[k][2] >>]

MOVES ==
  << <<"slow push-in">>, <<"gentle pan">>, <<"static locked-off">>,
     <<"low-angle reveal">>, <<"over-the-shoulder detail insert">>,
     <<"macro close-up">>, <<"wide establishing">>, <<"rack focus">>,
     <<"top-down instructional angle">>, <<"handheld follow">> >>

\* moves[i % len(moves)], i counted from 0
vary_camera(i) == MOVES[(i % Len(MOVES)) + 1]

----------------------------------------------------------------------------
(* Prompt builder *)

DETAIL_PHRASE ==
  [d \in {"Normal", "High", "Max"} |->
     CASE d = "Normal" -> <<"high realism, clean detail">>
       [] d = "High"   -> <<"ultra-detailed, micro-textures, crisp edges, natural grain">>
       [] d = "Max"    -> <<"extreme detail, micro-textures, realistic lighting physics, cinematic color science">>]

\* clone_line = f"Source=...; Title=...; Desc=..." if (meta.title or meta.description) else f"Source=..."
CloneLine(m) ==
  IF m.title # <<>> \/ m.description # <<>>
  THEN <<"Source=">> \o m.source \o <<"; ", "Title=">> \o m.title
                     \o <<"; ", "Desc=">> \o m.description
  ELSE <<"Source=">> \o m.source

build_prompts(idx, count, cat, orient, cont, m, beat_title, beat_text, scene_seconds, seed, detail) ==
  LET preset     == STYLE_PRESETS[cat]
      cam_move   == vary_camera(idx)
      detail_phrase == DETAIL_PHRASE[detail]
      clone_line == CloneLine(m)
      story ==
        beat_text \o <<"\n", "Continuity: ">> \o cont.actor_lock \o <<" | ">>
          \o cont.setting_lock \o <<"\n", "Mood arc: ">> \o cont.mood_arc
          \o <<"\n", "Clone cues: ">> \o clone_line
      video_prompt ==
        <<"SCENE ">> \o Str(idx + 1) \o <<"/">> \o Str(count) \o <<" -- ">>
          \o beat_title \o <<" [", orient, "] (~">> \o Str(scene_seconds) \o <<"s)", "\n">>
          \o <<"STYLE: ">> \o preset.vibe \o <<". ">> \o preset.camera
          \o <<". Lighting: ">> \o preset.lighting \o <<".", "\n">>
          \o <<"CAMERA MOVE: ">> \o cam_move
          \o <<". Pacing: controlled, cinematic, clear cause-effect.", "\n">>
          \o <<"CONTINUITY (LOCKED): ">> \o cont.actor_lock \o <<" ; ">>
          \o cont.setting_lock \o <<".", "\n">>
          \o <<"MOOD ARC: ">> \o cont.mood_arc \o <<".", "\n">>
          \o <<"SCENE BEAT: ">> \o beat_text \o <<"\n">>
          \o <<"RULES: ">> \o cont.rules \o <<"\n">>
          \o <<"SEED NOTE (for consistency): ">> \o Str(seed) \o <<"\n">>
      image_prompt ==
        <<"IMAGE PROMPT -- Scene ">> \o Str(idx + 1) \o <<"/">> \o Str(count)
          \o <<" -- ">> \o beat_title \o <<" (", cat, ") [", orient, "]", "\n">>
          \o detail_phrase \o <<". ">> \o preset.vibe \o <<". ">> \o preset.camera
          \o <<". ">> \o preset.lighting \o <<".", "\n">>
          \o <<"Camera move feel: ">> \o cam_move
          \o <<". Strong composition, readable action, no text.", "\n">>
          \o <<"Subject lock: ">> \o cont.actor_lock \o <<".", "\n">>
          \o <<"Setting lock: ">> \o cont.setting_lock \o <<".", "\n">>
          \o <<"Beat: ">> \o beat_text \o <<".", "\n">>
          \o <<"Clone cues: ">> \o clone_line \o <<".", "\n">>
  IN  [story |-> story, video_prompt |-> Strip(video_prompt),
       image_prompt |-> Strip(image_prompt)]

----------------------------------------------------------------------------
(* The generation block of the script *)

Max(a, b) == IF a >= b THEN a ELSE b

SceneCountUnguarded(total, len) == total \div len

\* n = max(1, int(total_duration // scene_len))
SceneCount(total, len) == Max(1, total \div len)

SceneSeedUnscaled(base, i) == base + i

SceneSeedConstant(base, i) == base

\* seed = int(base_seed) + i * 17
SceneSeed(base, i) == base + i * 17

\* one iteration of `for i in range(n)`: build the prompts, make the SceneOut
MakeScene(i, count, cat, orient, cont, m, beat, secs, base, detail, negative) ==
  LET seed == SceneSeed(base, i)
      p == build_prompts(i, count, cat, orient, cont, m, beat[1], beat[2],
                         secs, seed, detail)
  IN  SceneOut(i, beat[1], p.story, p.video_prompt, p.image_prompt,
               negative, seed, "None")

----------------------------------------------------------------------------
(* Widget ranges and the inputs the model draws *)

MinTotal == 10
DefaultTotal == 60
MaxTotal == 72
DefaultSceneLen == 6
MaxSceneLen == 60
DefaultSeed == 123456

\* st.number_input("Total duration (seconds)", 10, 3600, 60, 5)
TotalDurations == {MinTotal, 30, DefaultTotal, DefaultTotal + 1, MaxTotal}

\* st.number_input("Seconds per scene", 2, 60, 6, 1)
SceneLens == {DefaultSceneLen, MaxSceneLen}

\* st.number_input("Base seed", 0, 2_000_000_000, 123456, 1)
BaseSeeds == {100, DefaultSeed}

Urls == { <<>>, <<"T","i","k","T","o","k",".","c","o","m","/","v","1">> }

Pages ==
  { Page(<<"B","u","s","h","c","r","a","f","t"," ","C","a","m","p","f","i","r","e">>, <<>>, <<>>, <<"https://cdn/og.png">>),
    Page(<<>>, <<"f","i","l","m"," ","n","o","i","r">>, <<"d","i","y"," ","t","o","o","l","s">>, <<>>) }

Ideas == { <<>>, <<"l","o","s","t"," ","d","o","g">> }

SixCategories == {CATEGORIES[k] : k \in 2..Len(CATEGORIES)}

NoContinuity ==
  [actor_lock |-> <<>>, setting_lock |-> <<>>, mood_arc |-> <<>>, rules |-> <<>>]

----------------------------------------------------------------------------
(* The script: one run per page load or widget interaction.  A run is a   *)
(* function of the widget values it starts with and of what the fetch      *)
(* returns, so the widget values are drawn at the start of the run.        *)

\* meta = CloneMeta(...); if auto_meta and url: meta = build_clone_meta(url)
ScriptMeta(u, auto_meta, fetched) ==
  IF auto_meta /\ u # <<>> THEN build_clone_meta(u, fetched)
  ELSE CloneMeta(u, detect_source(u))

Widgets(urls, ideas, totals, lens, seeds) ==
  /\ url \in urls
  /\ idea \in ideas
  /\ category \in SixCategories \cup {"Auto"}
  /\ orientation \in DOMAIN ORIENTATIONS
  /\ total_duration \in totals
  /\ scene_len \in lens
  /\ detail_level \in DOMAIN DETAIL_PHRASE
  /\ base_seed \in seeds

\* st.session_state without the keys the script saves
NoSession ==
  [present |-> FALSE, scenes |-> <<>>, meta |-> CloneMeta(<<>>, <<>>),
   category_final |-> "", orientation |-> "", continuity |-> NoContinuity]

BACKENDS == <<"None (prompts only)", "Local A1111 (free)", "OpenAI Images">>

\* a session that has logged in, with the image engine left at "None (prompts only)"
LoggedIn ==
  /\ password = <<"p","w">>
  /\ authed = "True"
  /\ attempt = <<>>
  /\ login = FALSE
  /\ backend = BACKENDS[1]
  /\ session = NoSession

NotRunYet ==
  /\ fetch = "none"
  /\ img = 0
  /\ attempted = <<>>
  /\ meta = CloneMeta(<<>>, <<>>)
  /\ auto_cat = ""
  /\ category_final = ""
  /\ continuity = NoContinuity
  /\ n = 0
  /\ beats = <<>>
  /\ scenes = <<>>
  /\ pc = "start"

Init ==
  /\ Widgets(Urls, Ideas, TotalDurations, SceneLens, BaseSeeds)
  /\ LoggedIn
  /\ NotRunYet

\* what became of the fetch: build_clone_meta not called, fetch_html raised, or a page
FetchStatus(u, auto_meta, fetched) ==
  IF ~(auto_meta /\ u # <<>>) THEN "not called"
  ELSE IF fetched.ok THEN "ok" ELSE "failed"

\* metadata fetch, suggested and final category, continuity
AnalyseWith(pages) ==
  /\ pc = "start"
  /\ \E auto_meta \in BOOLEAN, fetched \in {FetchFailed} \cup pages :
       /\ meta' = ScriptMeta(url, auto_meta, fetched)
       /\ fetch' = FetchStatus(url, auto_meta, fetched)
  /\ auto_cat' = suggest_category(meta', idea)
  /\ category_final' = CategoryFinal(category, auto_cat')
  /\ continuity' = auto_continuity(category_final', meta', idea)
  /\ pc' = "analysed"
  /\ UNCHANGED <<url, idea, category, orientation, total_duration, scene_len,
                 detail_level, base_seed, n, beats, scenes, gateVars, imageVars>>

Analyse == AnalyseWith(Pages)

\* "Generate Scene Cards" was not clicked: the run ends after the analysis
NoGenerate ==
  /\ pc = "analysed"
  /\ pc' = "idle"
  /\ UNCHANGED <<url, idea, category, orientation, total_duration, scene_len,
                 detail_level, base_seed, meta, auto_cat, category_final,
                 continuity, n, beats, scenes, fetch, gateVars, imageVars>>

\* it was clicked: n and the beats
Generate ==
  /\ pc = "analysed"
  /\ n' = SceneCount(total_duration, scene_len)
  /\ beats' = build_beats(n', category_final)
  /\ scenes' = <<>>
  /\ pc' = "loop"
  /\ UNCHANGED <<url, idea, category, orientation, total_duration, scene_len,
                 detail_level, base_seed, meta, auto_cat, category_final,
                 continuity, fetch, gateVars, imageVars>>

\* for i in range(n): ... scenes.append(SceneOut(...))
SceneStep ==
  /\ pc = "loop"
  /\ Len(scenes) < n
  /\ LET i == Len(scenes)
     IN  scenes' = Append(scenes,
                     MakeScene(i, n, category_final, orientation, continuity, meta,
                               beats[i + 1], scene_len, base_seed, detail_level,
                               DEFAULT_NEGATIVE))
  /\ UNCHANGED <<url, idea, category, orientation, total_duration, scene_len,
                 detail_level, base_seed, meta, auto_cat, category_final,
                 continuity, n, beats, pc, fetch, gateVars, imageVars>>

\* the loop is over: on to `if backend != "None (prompts only)"`
Finish ==
  /\ pc = "loop"
  /\ Len(scenes) = n
  /\ pc' = "images"
  /\ img' = 0
  /\ attempted' = <<>>
  /\ UNCHANGED <<url, idea, category, orientation, total_duration, scene_len,
                 detail_level, base_seed, meta, auto_cat, category_final,
                 continuity, n, beats, scenes, fetch, gateVars, backend, session>>

\* what the script stores under "scenes", "meta", "category_final", "orientation"
\* and "continuity"
Saved(sc, m, final, orient, cont) ==
  [present |-> TRUE, scenes |-> sc, meta |-> m, category_final |-> final,
   orientation |-> orient, continuity |-> cont]

\* the image phase is over or was skipped: save to session, end of the run
Save ==
  /\ pc = "images"
  /\ backend = BACKENDS[1] \/ img = Len(scenes)
  /\ session' = Saved(scenes, meta, category_final, orientation, continuity)
  /\ pc' = "done"
  /\ UNCHANGED <<url, idea, category, orientation, total_duration, scene_len,
                 detail_level, base_seed, meta, auto_cat, category_final,
                 continuity, n, beats, scenes, fetch, gateVars, backend, img,
                 attempted>>

Next == Analyse \/ NoGenerate \/ Generate \/ SceneStep \/ Finish \/ Save

Spec == Init /\ [][Next]_vars

----------------------------------------------------------------------------
(* The analysis part of the script over a wider range of texts *)

ClassifyUrls == { <<>>, <<"y","o","u","t","u",".","b","e","/","x">> }

ClassifyPages ==
  { Page(t, d, s, <<>>) :
      t \in { <<>>, <<"B","u","s","h","c","r","a","f","t"," ","C","a","m","p","f","i","r","e">>, <<"w","i","l","d","l","i","f","e"," ","d","o","c","u","m","e","n","t","a","r","y">>, <<"s","t","o","r","m"," ","r","e","s","c","u","e">>,
              <<"f","o","r","e","s","t"," ","c","a","m","p">> },
      d \in { <<>>, <<"s","h","e","l","t","e","r">>, <<"f","i","l","m"," ","n","o","i","r">>, <<"c","a","m","p","f","i","r","e"," ","a","x","e">> },
      s \in { <<>>, <<"d","i","y"," ","t","o","o","l","s">> } }

ClassifyIdeas ==
  { <<>>, <<"j","u","s","t"," ","a"," ","r","a","n","d","o","m"," ","s","e","n","t","e","n","c","e">>, <<"b","u","s","h","c","r","a","f","t"," ","c","a","m","p","f","i","r","e"," ","f","o","r","e","s","t"," ","c","a","m","p"," ","t","a","r","p">>,
    <<"l","o","s","t"," ","d","o","g">>, <<"T","i","g","e","r">> }

InitClassify ==
  /\ Widgets(ClassifyUrls, ClassifyIdeas, {DefaultTotal}, {DefaultSceneLen},
             {DefaultSeed})
  /\ orientation = "vertical 9:16"
  /\ detail_level = "High"
  /\ LoggedIn
  /\ NotRunYet

Classify == AnalyseWith(ClassifyPages)

NextClassify == Classify

SpecClassify == InitClassify /\ [][NextClassify]_vars

----------------------------------------------------------------------------
(* The script over a wider range of URLs *)

MetaUrls ==
  { <<>>, <<"T","i","k","T","o","k",".","c","o","m","/","v","1">>, <<"i","n","s","t","a","g","r","a","m",".","c","o","m","/","p">>, <<"i","n","s","t","a","g","r",".","a","m","/","p">>, <<"f","a","c","e","b","o","o","k",".","c","o","m","/","v">>,
    <<"f","b",".","w","a","t","c","h","/","x">>, <<" ","h","t","t","p","s",":","/","/","w","w","w",".","Y","o","u","T","u","b","e",".","c","o","m","/","w"," ">>, <<"y","o","u","t","u",".","b","e","/","x">>,
    <<"y","o","u","t","u","b","e",".","c","o","m","/","?","u","=","t","i","k","t","o","k",".","c","o","m">>, <<"e","x","a","m","p","l","e",".","o","r","g","/","a">> }

MetaTotal == 30

InitMeta ==
  /\ Widgets(MetaUrls, {<<>>}, {MetaTotal}, {DefaultSceneLen}, {DefaultSeed})
  /\ orientation = "vertical 9:16"
  /\ detail_level = "High"
  /\ LoggedIn
  /\ NotRunYet

SpecMeta == InitMeta /\ [][Next]_vars

----------------------------------------------------------------------------
(* The script from its first line: the password gate, and the reruns that *)
(* the visitor's interactions cause.  st.session_state (authed, session)   *)
(* outlives a run; the script's own variables do not.                      *)

\* APP_PASSWORD: not configured, or configured
Passwords == { <<>>, <<"p","w">> }

\* what the visitor types into the "Password" field
Attempts == { <<>>, <<"p","w">>, <<"p","w"," ">>, <<"P","W">> }

AttemptAlwaysMatches(a, p) == TRUE

\* attempt == password
AttemptMatches(a, p) == a = p

InitGate ==
  /\ Widgets({<<"T","i","k","T","o","k",".","c","o","m","/","v","1">>}, {<<>>}, {MinTotal}, {DefaultSceneLen}, {DefaultSeed})
  /\ category \in {"Auto", "DIY"}
  /\ orientation = "vertical 9:16"
  /\ detail_level = "High"
  /\ password \in Passwords
  /\ authed = "absent"
  /\ attempt = <<>>
  /\ login = FALSE
  /\ backend = BACKENDS[1]
  /\ session = NoSession
  /\ fetch = "none" /\ img = 0 /\ attempted = <<>>
  /\ meta = CloneMeta(<<>>, <<>>)
  /\ auto_cat = "" /\ category_final = "" /\ continuity = NoContinuity
  /\ n = 0 /\ beats = <<>> /\ scenes = <<>>
  /\ pc = "top"

\* the function definitions run before the gate; the annotation `Any` of
\* build_zip is not imported, and a Python that evaluates annotations at
\* definition time raises NameError there
ScriptAborts ==
  /\ pc = "top"
  /\ pc' = "aborted"
  /\ UNCHANGED <<url, idea, category, orientation, total_duration, scene_len,
                 detail_level, base_seed, meta, auto_cat, category_final,
                 continuity, n, beats, scenes, fetch, gateVars, imageVars>>

\* if not auth_gate(): st.stop()
Gate ==
  /\ pc = "top"
  /\ IF password = <<>>
       THEN /\ pc' = "stopped"
            /\ UNCHANGED <<authed, login>>
     ELSE IF authed = "True"
       THEN /\ pc' = "start"
            /\ UNCHANGED <<authed, login>>
     ELSE IF login /\ AttemptMatches(attempt, password)
       THEN /\ authed' = "True"
            /\ login' = FALSE
            /\ pc' = "top"
     ELSE /\ authed' = "False"
          /\ pc' = "stopped"
          /\ UNCHANGED login
  /\ UNCHANGED <<url, idea, category, orientation, total_duration, scene_len,
                 detail_level, base_seed, meta, auto_cat, category_final,
                 continuity, n, beats, scenes, fetch, password, attempt, imageVars>>

\* the visitor does something and the script runs again from the top; the
\* password field and the Login button exist only if the last run drew them
Interact ==
  /\ pc \in {"stopped", "aborted", "idle", "done"}
  /\ IF pc = "stopped" /\ password # <<>>
       THEN attempt' \in Attempts /\ login' \in BOOLEAN
       ELSE attempt' = attempt /\ login' = FALSE
  /\ fetch' = "none" /\ img' = 0 /\ attempted' = <<>>
  /\ meta' = CloneMeta(<<>>, <<>>)
  /\ auto_cat' = "" /\ category_final' = "" /\ continuity' = NoContinuity
  /\ n' = 0 /\ beats' = <<>> /\ scenes' = <<>>
  /\ pc' = "top"
  /\ UNCHANGED <<url, idea, category, orientation, total_duration, scene_len,
                 detail_level, base_seed, password, authed, backend, session>>

NextGate ==
  \/ ScriptAborts \/ Gate \/ Interact
  \/ Analyse \/ NoGenerate \/ Generate \/ SceneStep \/ Finish \/ Save

SpecGate == InitGate /\ [][NextGate]_vars

----------------------------------------------------------------------------
(* The image phase: one call of gen_image_a1111 or gen_image_openai per    *)
(* scene, each of which returns bytes or raises, and the runs that follow   *)
(* a run in the same session.                                               *)

\* the call returned the decoded image, or raised (no server, HTTP error, no key)
ImageResults == { [ok |-> TRUE, bytes |-> "bytes"], [ok |-> FALSE, bytes |-> "None"] }

SceneAfterImageLosesPrompt(sc, r) ==
  [sc EXCEPT !.image_bytes = "bytes", !.image_prompt = IF r.ok THEN @ ELSE <<>>]

\* s.image_bytes = gen_image_...(...)  /  except Exception: s.image_bytes = None
SceneAfterImage(sc, r) ==
  [sc EXCEPT !.image_bytes = IF r.ok THEN r.bytes ELSE "None"]

\* for s in scenes: try: ... except Exception as e: ...
ImageStep ==
  /\ pc = "images"
  /\ backend # BACKENDS[1]
  /\ img < Len(scenes)
  /\ \E r \in ImageResults :
       /\ scenes' = [scenes EXCEPT ![img + 1] = SceneAfterImage(@, r)]
       /\ attempted' = Append(attempted, [idx |-> scenes[img + 1].idx, ok |-> r.ok])
  /\ img' = img + 1
  /\ UNCHANGED <<url, idea, category, orientation, total_duration, scene_len,
                 detail_level, base_seed, meta, auto_cat, category_final,
                 continuity, n, beats, pc, fetch, gateVars, backend, session>>

ImagesTotal == 18

ImagesCategories == {"Auto", "DIY"}

ImagesOrientations == {"vertical 9:16", "horizontal 16:9"}

InitImages ==
  /\ Widgets({<<>>}, {<<"l","o","s","t"," ","d","o","g">>}, {MinTotal, ImagesTotal}, {DefaultSceneLen}, {DefaultSeed})
  /\ category \in ImagesCategories
  /\ orientation \in ImagesOrientations
  /\ detail_level = "High"
  /\ password = <<"p","w">> /\ authed = "True" /\ attempt = <<>> /\ login = FALSE
  /\ backend \in {BACKENDS[k] : k \in 1..Len(BACKENDS)}
  /\ session = NoSession
  /\ NotRunYet

\* the visitor changes the selections and the script runs again; the session
\* still holds what the last generation saved
Rerun ==
  /\ pc \in {"idle", "done"}
  /\ category' \in ImagesCategories
  /\ orientation' \in ImagesOrientations
  /\ backend' \in {BACKENDS[k] : k \in 1..Len(BACKENDS)}
  /\ fetch' = "none" /\ img' = 0 /\ attempted' = <<>>
  /\ meta' = CloneMeta(<<>>, <<>>)
  /\ auto_cat' = "" /\ category_final' = "" /\ continuity' = NoContinuity
  /\ n' = 0 /\ beats' = <<>> /\ scenes' = <<>>
  /\ pc' = "start"
  /\ UNCHANGED <<url, idea, total_duration, scene_len, detail_level, base_seed,
                 gateVars, session>>

NextImages ==
  \/ Analyse \/ NoGenerate \/ Generate \/ SceneStep \/ Finish
  \/ ImageStep \/ Save \/ Rerun

SpecImages == InitImages /\ [][NextImages]_vars

----------------------------------------------------------------------------
(* build_beats on its own *)

MaxBeats == 13

InitBeats ==
  /\ url = <<>>
  /\ idea = <<>>
  /\ category \in SixCategories
  /\ orientation = "vertical 9:16"
  /\ total_duration = DefaultTotal
  /\ scene_len = DefaultSceneLen
  /\ detail_level = "High"
  /\ base_seed = DefaultSeed
  /\ LoggedIn
  /\ fetch = "not called"
  /\ img = 0
  /\ attempted = <<>>
  /\ meta = ScriptMeta(url, TRUE, FetchFailed)
  /\ auto_cat = suggest_category(meta, idea)
  /\ category_final = CategoryFinal(category, auto_cat)
  /\ continuity = auto_continuity(category_final, meta, idea)
  /\ n \in 1..MaxBeats
  /\ beats = <<>>
  /\ scenes = <<>>
  /\ pc = "beats"

\* beats = build_beats(n, category_final)
Beats ==
  /\ pc = "beats"
  /\ beats' = build_beats(n, category_final)
  /\ pc' = "loop"
  /\ UNCHANGED <<url, idea, category, orientation, total_duration, scene_len,
                 detail_level, base_seed, meta, auto_cat, category_final,
                 continuity, n, scenes, fetch, gateVars, imageVars>>

NextBeats == Beats

SpecBeats == InitBeats /\ [][NextBeats]_vars

----------------------------------------------------------------------------
(* Reading the outputs *)

\* the position of the fixed text `marker` of a template in the prompt s
MarkerAt(s, marker) == CHOOSE p \in 1..Len(s) : s[p] = marker

HasMarker(s, marker) == \E p \in 1..Len(s) : s[p] = marker

\* the token that follows the fixed text `marker` in s
TokenAfter(s, marker) == s[MarkerAt(s, marker) + 1]

\* the number of keywords of category c found in the classifier's text
Count(c, text) ==
  LET k == CHOOSE k \in 1..Len(KW) : KW[k].cat = c
  IN  Score(KW[k].words, text)

MaxCount(text) ==
  CHOOSE v \in {Count(c, text) : c \in SixCategories} :
    \A c \in SixCategories : Count(c, text) <= v

ClaimedOrder ==
  <<"Bushcraft", "Survival", "Shelter", "DIY", "Animals (Real-life)",
    "Movie (Real-life)">>

Ceil(a, b) == (a + b - 1) \div b

Generated == pc \in {"loop", "images", "done"}

----------------------------------------------------------------------------
(* Claims *)

\* C1: once generation is triggered, the number of scenes is
\* max(1, ceil(total_duration / scene_len)); (60, 6) gives 10 and (61, 6) gives 11.
C1_SceneCountIsCeiling ==
  Generated => n = Max(1, Ceil(total_duration, scene_len))

\* C2: the scene at index i carries seed = base_seed + 17*i, so the seeds of a run
\* increase strictly with the index; a 5-scene run with base_seed 100 has the seeds
\* 100, 117, 134, 151, 168; the seed note of the video prompt is the record's seed.
C2_SeedsFollowBaseSeed ==
  /\ \A k \in 1..Len(scenes) :
       /\ scenes[k].idx = k - 1
       /\ scenes[k].seed = base_seed + 17 * (k - 1)
       /\ TokenAfter(scenes[k].video_prompt, "SEED NOTE (for consistency): ")
            = ToString(scenes[k].seed)
  /\ \A j, k \in 1..Len(scenes) : j < k => scenes[j].seed < scenes[k].seed
  /\ (pc = "done" /\ n = 5 /\ base_seed = 100) =>
       [k \in 1..5 |-> scenes[k].seed] = <<100, 117, 134, 151, 168>>

C2_FiveSceneRunFromSeed100 ==
  pc = "done" /\ n = 5 /\ base_seed = 100 /\ Len(scenes) = 5

\* C3: suggest_category always returns one of the six categories, and returns
\* Movie whenever the highest keyword count is below 2, whichever category has it.
C3_BelowThresholdIsMovie ==
  pc = "analysed" =>
    /\ auto_cat \in SixCategories
    /\ auto_cat \in {ClaimedOrder[k] : k \in 1..6}
    /\ MaxCount(SuggestText(meta, idea)) < 2 => auto_cat = "Movie (Real-life)"
    /\ (meta.title = <<>> /\ meta.description = <<>> /\ meta.site_name = <<>>
        /\ idea \in { <<>>, <<"j","u","s","t"," ","a"," ","r","a","n","d","o","m"," ","s","e","n","t","e","n","c","e">> })
         => auto_cat = "Movie (Real-life)"

C3_SingleMatchElsewhere ==
  /\ pc = "analysed"
  /\ MaxCount(SuggestText(meta, idea)) = 1
  /\ Count("Movie (Real-life)", SuggestText(meta, idea)) = 0
  /\ auto_cat = "Movie (Real-life)"

\* C4: when the highest keyword count is at least 2, suggest_category returns a
\* category with that count, and among several the first in the order Bushcraft,
\* Survival, Shelter, DIY, Animals, Movie; the bushcraft example gives Bushcraft.
C4_HighestCountFirstInOrder ==
  pc = "analysed" =>
    LET text == SuggestText(meta, idea)
        top  == MaxCount(text)
    IN  /\ top >= 2 =>
             \E k \in 1..6 :
               /\ auto_cat = ClaimedOrder[k]
               /\ Count(ClaimedOrder[k], text) = top
               /\ \A j \in 1..(k - 1) : Count(ClaimedOrder[j], text) < top
        /\ (meta.title = <<>> /\ meta.description = <<>> /\ meta.site_name = <<>>
            /\ idea = <<"b","u","s","h","c","r","a","f","t"," ","c","a","m","p","f","i","r","e"," ","f","o","r","e","s","t"," ","c","a","m","p"," ","t","a","r","p">>)
             => auto_cat = "Bushcraft"

C4_TieAtTheTop ==
  /\ pc = "analysed"
  /\ LET text == SuggestText(meta, idea)
         top  == MaxCount(text)
     IN  /\ top >= 2
         /\ \E j, k \in 1..6 :
              /\ j < k
              /\ Count(ClaimedOrder[j], text) = top
              /\ Count(ClaimedOrder[k], text) = top
              /\ auto_cat = ClaimedOrder[j]

\* C5 as stated: build_beats returns n entries and entry k equals entry
\* ((k-1) mod L)+1 of the catalog, L = 8 for Animals and 10 otherwise.
C5_BeatsEqualCatalogEntries ==
  pc = "loop" =>
    LET base == BeatBase(category_final)
        L    == IF category_final = "Animals (Real-life)" THEN 8 ELSE 10
    IN  /\ Len(base) = L
        /\ Len(beats) = n
        /\ \A k \in 1..Len(beats) : beats[k] = base[((k - 1) % L) + 1]

\* C5, amended: build_beats returns n entries; entry k has the description of
\* catalog entry ((k-1) mod L)+1 and that entry's title prefixed with "k. ".
C5_BeatsCycleWithNumberedTitles ==
  pc = "loop" =>
    LET base == BeatBase(category_final)
        L    == IF category_final = "Animals (Real-life)" THEN 8 ELSE 10
    IN  /\ Len(base) = L
        /\ Len(beats) = n
        /\ \A k \in 1..Len(beats) :
             /\ beats[k][2] = base[((k - 1) % L) + 1][2]
             /\ beats[k][1] = <<ToString(k), ". ">> \o base[((k - 1) % L) + 1][1]

C5_TwelveBeatsForDIY ==
  pc = "loop" /\ n = 12 /\ category_final = "DIY" /\ Len(beats) = 12
  /\ beats[11][2] = GENERIC_BEATS[1][2] /\ beats[12][2] = GENERIC_BEATS[2][2]

\* the beat description and the camera move a scene was built with
BeatTextOf(s) == TokenAfter(s.video_prompt, "SCENE BEAT: ")
CameraOf(s) == TokenAfter(s.video_prompt, "CAMERA MOVE: ")

\* C6 as stated: two scenes of a run with distinct indices that reuse the same
\* catalog beat have distinct camera moves and distinct seeds.
C6_ReusedBeatsDifferInCameraAndSeed ==
  \A j, k \in 1..Len(scenes) :
    (j # k /\ BeatTextOf(scenes[j]) = BeatTextOf(scenes[k])) =>
      /\ CameraOf(scenes[j]) # CameraOf(scenes[k])
      /\ scenes[j].seed # scenes[k].seed

\* C6, amended: two scenes of a run with distinct indices have distinct seeds, so
\* no two scenes are identical; the camera move of scene i is MOVES[i mod 10], and
\* two scenes have the same camera move exactly when their indices are congruent
\* modulo 10 (as are those of two scenes that reuse a beat of the 10-entry catalog).
C6_ScenesDifferBySeed ==
  \A j, k \in 1..Len(scenes) :
    j # k =>
      /\ scenes[j].seed # scenes[k].seed
      /\ scenes[j] # scenes[k]
      /\ scenes[j].video_prompt # scenes[k].video_prompt
      /\ CameraOf(scenes[k]) = MOVES[((k - 1) % 10) + 1][1]
      /\ (CameraOf(scenes[j]) = CameraOf(scenes[k])) <=> ((k - j) % 10 = 0)

C6_BeatReusedWithSameCamera ==
  /\ pc = "done"
  /\ \E j, k \in 1..Len(scenes) :
       /\ j # k
       /\ BeatTextOf(scenes[j]) = BeatTextOf(scenes[k])
       /\ CameraOf(scenes[j]) = CameraOf(scenes[k])
       /\ scenes[j].seed # scenes[k].seed

\* C7: the clone-cues line is "Source=..; Title=..; Desc=.." when the title or the
\* description is non-empty and "Source=.." otherwise; with both empty, the image
\* prompt and the video prompt contain "Source={platform}" and neither "Title="
\* nor "Desc=".
C7_CloneCuesInBothPrompts ==
  \A k \in 1..Len(scenes) :
    /\ (meta.title # <<>> \/ meta.description # <<>>) =>
         Contains(scenes[k].image_prompt,
                  <<"Source=">> \o meta.source \o <<"; ", "Title=">> \o meta.title
                    \o <<"; ", "Desc=">> \o meta.description)
    /\ (meta.title = <<>> /\ meta.description = <<>>) =>
         /\ Contains(scenes[k].image_prompt, <<"Source=">> \o meta.source)
         /\ Contains(scenes[k].video_prompt, <<"Source=">> \o meta.source)
         /\ ~HasMarker(scenes[k].image_prompt, "Title=")
         /\ ~HasMarker(scenes[k].image_prompt, "Desc=")
         /\ ~HasMarker(scenes[k].video_prompt, "Title=")
         /\ ~HasMarker(scenes[k].video_prompt, "Desc=")

\* what auto_continuity returns for a category when there is no title and no idea
Plain(cat) == auto_continuity(cat, CloneMeta(<<>>, <<>>), <<>>)

\* C8 as stated: the actor lock is the category's actor text, then
\* " Source inspiration: {title}." iff the title is non-empty, then " Idea: {idea}."
\* iff the idea is non-empty; the other three fields ignore title and idea.
C8_FlavorSourceInspiration ==
  pc = "analysed" =>
    /\ continuity.actor_lock =
         Plain(category_final).actor_lock
           \o (IF meta.title # <<>>
               THEN <<" Source inspiration: ">> \o meta.title \o <<".">> ELSE <<>>)
           \o (IF idea # <<>> THEN <<" Idea: ">> \o idea \o <<".">> ELSE <<>>)
    /\ continuity.setting_lock = Plain(category_final).setting_lock
    /\ continuity.mood_arc = Plain(category_final).mood_arc
    /\ continuity.rules = Plain(category_final).rules

\* C8, amended: the same, with the title's suffix reading
\* " Inspired by source title: {title}.".
C8_FlavorInspiredBySourceTitle ==
  pc = "analysed" =>
    /\ continuity.actor_lock =
         Plain(category_final).actor_lock
           \o (IF meta.title # <<>>
               THEN <<" Inspired by source title: ">> \o meta.title \o <<".">> ELSE <<>>)
           \o (IF idea # <<>> THEN <<" Idea: ">> \o idea \o <<".">> ELSE <<>>)
    /\ continuity.setting_lock = Plain(category_final).setting_lock
    /\ continuity.mood_arc = Plain(category_final).mood_arc
    /\ continuity.rules = Plain(category_final).rules

C8_TitleAndIdeaBothGiven ==
  /\ pc = "analysed"
  /\ meta.title # <<>>
  /\ idea # <<>>
  /\ Len(continuity.actor_lock) > Len(meta.title) + Len(idea)

\* C9: the final category is one of the six categories and never "Auto", and the
\* style presets, the continuity and the beat catalog have a complete, non-empty
\* entry for it.
C9_TablesCoverFinalCategory ==
  pc = "analysed" =>
    /\ category_final # "Auto"
    /\ category_final \in {ClaimedOrder[k] : k \in 1..6}
    /\ category_final \in DOMAIN STYLE_PRESETS
    /\ DOMAIN STYLE_PRESETS[category_final] = {"vibe", "camera", "lighting"}
    /\ \A f \in {"vibe", "camera", "lighting"} :
         STYLE_PRESETS[category_final][f] # <<>>
    /\ DOMAIN continuity = {"actor_lock", "setting_lock", "mood_arc", "rules"}
    /\ \A f \in DOMAIN continuity : continuity[f] # <<>>
    /\ BeatBase(category_final) # <<>>
    /\ \A k \in 1..Len(BeatBase(category_final)) :
         /\ BeatBase(category_final)[k][1] # <<>>
         /\ BeatBase(category_final)[k][2] # <<>>

C9_AutoResolvedByClassifier ==
  /\ pc = "analysed"
  /\ category = "Auto"
  /\ category_final \notin {"Auto", "Movie (Real-life)"}
  /\ category_final \in DOMAIN STYLE_PRESETS

\* C10: the final category, which continuity, beats and prompts are built for, is
\* the classifier's result when the selection is Auto and the selection otherwise.
C10_FinalCategory ==
  LET expected == IF category = "Auto" THEN suggest_category(meta, idea) ELSE category
  IN  /\ pc # "start" =>
           /\ category_final = expected
           /\ continuity.setting_lock = Plain(expected).setting_lock
           /\ continuity.mood_arc = Plain(expected).mood_arc
      /\ Generated =>
           /\ \A k \in 1..Len(beats) :
                beats[k][2] = BeatBase(expected)[((k - 1) % Len(BeatBase(expected))) + 1][2]
           /\ \A k \in 1..Len(scenes) :
                /\ TokenAfter(scenes[k].image_prompt, " (") = expected
                /\ Contains(scenes[k].video_prompt, STYLE_PRESETS[expected].vibe)

C10_SelectionOverridesClassifier ==
  /\ pc = "done"
  /\ category # "Auto"
  /\ auto_cat \notin {category, "Movie (Real-life)"}
  /\ category_final = category
  /\ Len(scenes) > 0

\* the platforms whose host names occur in the URL, whatever its case
PlatformsNamed(u) ==
  LET low == Lower(u)
  IN  { p \in {"TikTok", "Instagram", "Facebook", "YouTube"} :
          \E h \in CASE p = "TikTok"    -> { <<"t","i","k","t","o","k",".","c","o","m">> }
                     [] p = "Instagram" -> { <<"i","n","s","t","a","g","r","a","m",".","c","o","m">>, <<"i","n","s","t","a","g","r",".","a","m">> }
                     [] p = "Facebook"  -> { <<"f","a","c","e","b","o","o","k",".","c","o","m">>, <<"f","b",".","w","a","t","c","h">> }
                     [] p = "YouTube"   -> { <<"y","o","u","t","u","b","e",".","c","o","m">>, <<"y","o","u","t","u",".","b","e">> } :
            Contains(low, h) }

WellFormed(sc) ==
  /\ sc.title # <<>> /\ sc.story # <<>>
  /\ HasMarker(sc.video_prompt, "SCENE ")
  /\ HasMarker(sc.video_prompt, "SEED NOTE (for consistency): ")
  /\ sc.video_prompt[Len(sc.video_prompt)] = ToString(sc.seed)
  /\ HasMarker(sc.image_prompt, "IMAGE PROMPT -- Scene ")
  /\ Contains(sc.image_prompt, <<"Clone cues: ", "Source=">> \o meta.source \o <<".">>)
  /\ Contains(sc.story, <<"Clone cues: ", "Source=">> \o meta.source)

\* C11: when the fetch fails or the URL is empty, the meta has an empty title and
\* description and the platform detected from the URL ("Web" when no known host
\* matches), and the run goes on: a generation produces all n scenes, well formed.
C11_FailedFetchDegrades ==
  /\ \A f \in {FetchFailed} \cup Pages :
       build_clone_meta(<<>>, f) = CloneMeta(<<>>, <<"Web">>)
  /\ (pc # "start" /\ (fetch = "failed" \/ url = <<>>)) =>
       /\ meta.url = url
       /\ meta.title = <<>> /\ meta.description = <<>>
       /\ meta.site_name = <<>> /\ meta.image = <<>>
       /\ IF PlatformsNamed(url) = {} THEN meta.source = <<"Web">>
          ELSE \E p \in PlatformsNamed(url) : meta.source = <<p>>
       /\ auto_cat \in SixCategories
       /\ pc \in {"images", "done"} =>
            /\ n >= 1
            /\ Len(scenes) = n
            /\ \A k \in 1..n : WellFormed(scenes[k])

C11_GeneratedAfterFailedFetch ==
  /\ pc = "done"
  /\ fetch = "failed"
  /\ meta.source = <<"Instagram">>
  /\ Len(scenes) = n
  /\ session.present

PastGate == pc \in {"start", "analysed", "idle", "loop", "images", "done"}

\* C13: the inputs and the generation are reached only while authed is true;
\* authed becomes true only through a Login click whose attempt equals
\* APP_PASSWORD; once true it is never set back; with no password configured
\* the gate never opens.
C13_GateOpensOnlyForThePassword ==
  /\ [](PastGate => authed = "True")
  /\ [](session.present => authed = "True")
  /\ []((password = <<>>) => (~PastGate /\ authed = "absent"))
  /\ [][(authed # "True" /\ authed' = "True") =>
          (login /\ attempt = password /\ password # <<>>)]_vars
  /\ [][(authed = "True") => (authed' = "True")]_vars
  /\ [][password' = password]_vars

C13_GeneratedAfterLogin ==
  /\ pc = "done"
  /\ authed = "True"
  /\ attempt = password
  /\ session.present
  /\ Len(session.scenes) = 1


\* a scene without its image
WithoutImage(sc) == [sc EXCEPT !.image_bytes = "None"]

\* C14: with an image backend selected and the generation raising for some
\* scenes, each failing scene ends with image_bytes None, every other scene is
\* still attempted, in index order; the image phase changes no scene's story,
\* prompts, negative prompt or seed; all n scenes are saved to the session with
\* the meta, final category, orientation and continuity of that same run.
C14_ImageFailuresAreIsolated ==
  /\ []((pc \in {"images", "done"} /\ backend # BACKENDS[1]) =>
          /\ Len(attempted) = img
          /\ \A k \in 1..Len(attempted) :
               /\ attempted[k].idx = k - 1
               /\ scenes[k].idx = k - 1
               /\ ~attempted[k].ok => scenes[k].image_bytes = "None"
               /\ attempted[k].ok => scenes[k].image_bytes = "bytes"
          /\ \A k \in (Len(attempted) + 1)..Len(scenes) :
               scenes[k].image_bytes = "None"
          /\ pc = "done" => Len(attempted) = n)
  /\ [][(pc = "images") =>
          /\ Len(scenes') = Len(scenes)
          /\ \A k \in 1..Len(scenes) : WithoutImage(scenes'[k]) = WithoutImage(scenes[k])]_vars
  /\ [](pc = "done" =>
          /\ session.present
          /\ Len(session.scenes) = n
          /\ session.scenes = scenes
          /\ session.meta = meta
          /\ session.category_final = category_final
          /\ session.orientation = orientation
          /\ session.continuity = continuity)
  /\ [][(session' # session) => (pc = "images" /\ pc' = "done")]_vars

C14_FirstAndLastOfThreeFailed ==
  /\ pc = "done"
  /\ backend = "OpenAI Images"
  /\ n = 3
  /\ Len(attempted) = 3
  /\ ~attempted[1].ok /\ attempted[2].ok /\ ~attempted[3].ok
  /\ session.scenes[1].image_bytes = "None"
  /\ session.scenes[2].image_bytes = "bytes"
  /\ session.scenes[3].image_bytes = "None"
  /\ session.category_final = "DIY"


====
